---- MODULE Spec2Model ----
(***************************************************************************)
(* Model of the streaming session (backend/ws.py), its audio segmenter     *)
(* (backend/segmenter.py) and the whisper-server process supervisor        *)
(* (backend/whisper_server_client.py, backend/main.py).                    *)
(*                                                                         *)
(* Audio is kept at chunk granularity: the buffer is the sequence of the   *)
(* chunks pushed, each chunk a record [id, size] with its real sample      *)
(* count, so sizes and thresholds use the program's own constants.  Times  *)
(* are in milliseconds and are kept as elapsed times (now - last_...).     *)
(***************************************************************************)
EXTENDS Integers, Sequences, FiniteSets, TLC

\* ---------------------------------------------------------------- bounds
MaxChunks == 2
MaxEpoch == 2
MaxSpawns == 2
MaxDispatches == 2
MaxTextLen == 3
MaxEnergies == 5

\* ------------------------------------------------------ program constants
SAMPLE_RATE == 16000
MAX_SECONDS == 10
MAX_SAMPLES == MAX_SECONDS * SAMPLE_RATE
DEFAULT_MIN_SECONDS == 2000
DEFAULT_PARTIAL_INTERVAL == 500
PARTIAL_MIN_INTERVAL == 100
MIN_SECONDS_FLOOR == 500

\* ----------------------------------------------------------- input sets
Models == {"m1", "m2"}
DEFAULT_MODEL == "m1"
None == "None"
ChunkSizes == {0, 8000, 80000}
QueryMinSeconds == {0, DEFAULT_MIN_SECONDS}
ParamMinSeconds == {0, 500}
ParamPartialInterval == {0, 500}
InferDurations == {0, 500}

Min(a, b) == IF a <= b THEN a ELSE b
Max(a, b) == IF a >= b THEN a ELSE b

VARIABLES
  loop_pc,               \* where the session's control loop is
  current_model,
  engine_local,
  engine_task,           \* the current load_engine task
  min_seconds,           \* ms; segmenter.min_seconds is the same value
  partial_interval_ms,
  current_segment_id,    \* the segment epoch
  last_processed_size,
  is_processing_partial,
  partial_tasks,         \* the process_partial tasks that are not done
  buffer,                \* segmenter.buffer
  time_since_activity,   \* now - last_activity_time, ms
  time_diff,             \* now - last_partial_time, ms
  final_history,
  pending_segment,       \* audio_segment of the on_segment_ready in progress
  last_sent,             \* the last partial / final / error frame sent to the client
  segments_ready,        \* audio handed to on_segment_ready, in order
  flush_calls,           \* calls of segmenter.flush made by the loop
  pushed,                \* the chunks pushed since the buffer was last emptied
  last_partial,          \* how process_partial ended, when the last step was its return
                         \* from the rate limit or after the inference
  next_chunk_id,
  socket_counts

session_vars == <<loop_pc, current_model, engine_local, engine_task, min_seconds,
                  partial_interval_ms, current_segment_id, last_processed_size,
                  is_processing_partial, partial_tasks, buffer, time_since_activity,
                  time_diff, final_history, pending_segment, last_sent, segments_ready,
                  flush_calls, pushed, last_partial, next_chunk_id, socket_counts>>

VARIABLES
  processes,             \* server_manager.processes: model -> WhisperServerProcess
  os_procs,              \* the OS processes spawned so far, by pid
  manager_lock,          \* holder of server_manager.manager_lock
  pc,                    \* per thread: where it is in its supervisor call
  call,                  \* per thread: the call's arguments and locals
  last_stop,             \* what stop_server returned in the step just taken, else "none"
  dispatches             \* transcribe_array calls started

supervisor_vars == <<processes, os_procs, manager_lock, pc, call, last_stop, dispatches>>

VARIABLES
  result_text,           \* result.get("text"): what the engine returned
  allow_non_latin,
  text,                  \* the text as on_segment_ready holds it
  text_pc                \* "raw" before the filtering of ws.py 253-261, then "filtered"

text_vars == <<result_text, allow_non_latin, text, text_pc>>

VARIABLES
  energy_window,         \* the estimator's sliding window of per-chunk RMS values
  energies_arrived       \* every RMS value computed so far, in arrival order

estimator_vars == <<energy_window, energies_arrived>>

VARIABLES
  proc_lock              \* holder of each WhisperServerProcess.lock, by model

vars == <<session_vars, supervisor_vars, text_vars, estimator_vars, proc_lock>>

\* ------------------------------------------------------------- segmenter
RECURSIVE BufferSize(_)
BufferSize(b) == IF b = <<>> THEN 0 ELSE Head(b).size + BufferSize(Tail(b))

\* current_duration >= seconds, with the duration size / sample_rate
DurationAtLeast(size, ms) == size * 1000 >= ms * SAMPLE_RATE

\* mutant of PushClosesSegment: closes only above the maximum
PushClosesSegmentAbove(size) == size * 1000 > MAX_SECONDS * 1000 * SAMPLE_RATE

PushClosesSegment(size) == DurationAtLeast(size, MAX_SECONDS * 1000)

\* mutant of SilenceClosesSegment: silence closes nothing
SilenceClosesSegmentNever(size, minms) == FALSE

\* mutant of SilenceClosesSegment: the minimum is not looked at
SilenceClosesSegmentAlways(size, minms) == TRUE

\* mutant of SilenceClosesSegment: closes only above the minimum
SilenceClosesSegmentAbove(size, minms) == size * 1000 > minms * SAMPLE_RATE

SilenceClosesSegment(size, minms) == DurationAtLeast(size, minms)

\* mutant of Concatenate: the chunk is put in front
ConcatenateInFront(b, chunk) == <<chunk>> \o b

\* np.concatenate((self.buffer, chunk))
Concatenate(b, chunk) == Append(b, chunk)

\* mutant of Copy: the copy misses the last chunk
CopyLosesLastChunk(b) == SubSeq(b, 1, Len(b) - 1)

\* np.copy: a new array holding the same samples
Copy(b) == b

\* mutant of Reset: the buffer is kept
ResetKeepsBuffer(b) == b

\* segmenter.reset: self.buffer = np.array([])
Reset(b) == <<>>

\* ------------------------------------------------------------- time
ClampMinSeconds(q) == Max(MIN_SECONDS_FLOOR, Min(q, MAX_SECONDS * 1000))

MaxOf(S) == CHOOSE x \in S : \A y \in S : y <= x

\* An elapsed time is only ever compared with min_seconds (the idle time) or with
\* partial_interval_ms (the time since the last partial), so it saturates at the
\* largest value that can take.
IdleCap == MaxOf({ClampMinSeconds(q) : q \in QueryMinSeconds} \cup ParamMinSeconds)
PartialCap == MaxOf(ParamPartialInterval \cup {DEFAULT_PARTIAL_INTERVAL})

Elapse(t, d, cap) == Min(t + d, cap)

WaitTimeout ==
  LET wt0 == min_seconds
      wt1 == IF partial_interval_ms > 0 THEN Min(wt0, partial_interval_ms) ELSE wt0
      remaining_silence_time == min_seconds - time_since_activity
  IN IF remaining_silence_time > 0 THEN Min(wt1, remaining_silence_time) ELSE 0

\* ------------------------------------------------------ text filtering
\* Characters stand for their Unicode class: Latin letters, a Cyrillic letter,
\* the space and a digit.
Chars == {"Y", "o", "u", "ya", " ", "1"}

\* str.isalpha
IsAlpha(ch) == ch \in {"Y", "o", "u", "ya"}

\* _is_latin_like: "LATIN" in unicodedata.name(ch)
IsLatinLike(ch) == ch \in {"Y", "o", "u"}

\* the characters str.strip removes
IsSpace(ch) == ch = " "

Texts == UNION {[1..n -> Chars] : n \in 0..MaxTextLen}

\* the phrases of IGNORED_TEXTS that can be written with Chars
IGNORED_TEXTS == {<<"Y", "o", "u">>}

RECURSIVE LStrip(_)
LStrip(t) == IF t # <<>> /\ IsSpace(Head(t)) THEN LStrip(Tail(t)) ELSE t

RECURSIVE RStrip(_)
RStrip(t) == IF t # <<>> /\ IsSpace(t[Len(t)]) THEN RStrip(SubSeq(t, 1, Len(t) - 1)) ELSE t

\* str.strip
Strip(t) == RStrip(LStrip(t))

\* the loop of should_ignore_non_latin over the rest t of the text; the result is
\* <<has_letter, has_latin>>
RECURSIVE ScanLetters(_, _)
ScanLetters(t, has_letter) ==
  IF t = <<>> THEN <<has_letter, FALSE>>
  ELSE IF IsAlpha(Head(t))
       THEN IF IsLatinLike(Head(t)) THEN <<TRUE, TRUE>> ELSE ScanLetters(Tail(t), TRUE)
       ELSE ScanLetters(Tail(t), has_letter)

\* mutant of should_ignore_non_latin: one non-Latin letter is enough
ShouldIgnoreAnyNonLatin(t, allow) ==
  ~allow /\ \E i \in 1..Len(t) : IsAlpha(t[i]) /\ ~IsLatinLike(t[i])

should_ignore_non_latin(t, allow) ==
  IF allow THEN FALSE
  ELSE LET r == ScanLetters(t, FALSE) IN r[1] /\ ~r[2]

\* mutant of NormaliseText: the denylist is not consulted
NormaliseTextNoDenylist(raw, allow) ==
  LET stripped == Strip(raw)
  IN IF stripped # <<>> /\ should_ignore_non_latin(stripped, allow) THEN <<>> ELSE stripped

\* ws.py 253-261 (330-337 for a partial): strip, the denylist, the non-Latin rule
NormaliseText(raw, allow) ==
  LET stripped == Strip(raw)
      kept == IF stripped \in IGNORED_TEXTS THEN <<>> ELSE stripped
  IN IF kept # <<>> /\ should_ignore_non_latin(kept, allow) THEN <<>> ELSE kept

\* ------------------------------------------------------------- session
SessionInit ==
  /\ loop_pc = "setup"
  /\ current_model = DEFAULT_MODEL
  /\ engine_local = None
  /\ engine_task = [model |-> None, state |-> "none"]
  /\ min_seconds \in {ClampMinSeconds(q) : q \in QueryMinSeconds}
  /\ partial_interval_ms = DEFAULT_PARTIAL_INTERVAL
  /\ current_segment_id = 0
  /\ last_processed_size = 0
  /\ is_processing_partial = FALSE
  /\ partial_tasks = {}
  /\ buffer = <<>>
  /\ time_since_activity = 0
  /\ time_diff = PartialCap
  /\ final_history = <<>>
  /\ pending_segment = <<>>
  /\ last_sent = [type |-> "none", segment_id |-> 0, epoch |-> 0, size |-> 0,
                  history |-> <<>>]
  /\ segments_ready = <<>>
  /\ flush_calls = 0
  /\ pushed = <<>>
  /\ last_partial = "none"
  /\ next_chunk_id = 1
  /\ socket_counts = [m \in Models |-> IF m = DEFAULT_MODEL THEN 1 ELSE 0]

\* ws.py 364-371, after accept() and update_socket_count(current_model, 1):
\* send_models_message went through; the load_engine and receive tasks are
\* created and the loop is entered
SetupDone ==
  /\ UNCHANGED <<supervisor_vars, text_vars, estimator_vars, proc_lock>>
  /\ loop_pc = "setup"
  /\ loop_pc' = "wait"
  /\ engine_task' = [model |-> current_model, state |-> "pending"]
  /\ UNCHANGED <<current_model, engine_local, min_seconds, partial_interval_ms,
                 current_segment_id, last_processed_size, is_processing_partial,
                 partial_tasks, buffer, time_since_activity, time_diff, final_history,
                 pending_segment, last_sent, segments_ready, flush_calls, pushed,
                 last_partial, next_chunk_id, socket_counts>>

\* ws.py 364: send_models_message raises (the client is already gone); this is
\* before the `try` of line 371, so neither the handlers nor `finally` run
SetupFailed ==
  /\ UNCHANGED <<supervisor_vars, text_vars, estimator_vars, proc_lock>>
  /\ loop_pc = "setup"
  /\ loop_pc' = "closed"
  /\ UNCHANGED <<current_model, engine_local, engine_task, min_seconds, partial_interval_ms,
                 current_segment_id, last_processed_size, is_processing_partial,
                 partial_tasks, buffer, time_since_activity, time_diff, final_history,
                 pending_segment, last_sent, segments_ready, flush_calls, pushed,
                 last_partial, next_chunk_id, socket_counts>>

\* engine_task.done() and engine_task.result()
EngineTaskDone == engine_task.state # "pending"
EngineTaskResult == IF engine_task.state = "ok" THEN engine_task.model ELSE None

\* partial_processing_task is None or partial_processing_task.done()
PartialTaskDone == \A t \in partial_tasks : ~t.latest

\* mutant of MaySchedulePartial: a task is created at the end of every iteration
MaySchedulePartialAlways == TRUE

\* ws.py 467-472: the end of a loop iteration
MaySchedulePartial == ~is_processing_partial /\ PartialTaskDone

SchedulePartial ==
  IF MaySchedulePartial
  THEN {[t EXCEPT !.latest = FALSE] : t \in partial_tasks}
         \cup {[pc |-> "created", latest |-> TRUE, engine |-> None, my_segment_id |-> 0,
                  current_size |-> 0, audio_copy |-> <<>>]}
  ELSE partial_tasks

\* update_socket_count of the supervisor
UpdateSocketCount(counts, m, delta) == [counts EXCEPT ![m] = Max(0, counts[m] + delta)]

\* The loop is parked in asyncio.wait and the tasks created before it yielded
\* have taken their first step.
LoopAtWait == loop_pc = "wait" /\ \A t \in partial_tasks : t.pc # "created"

\* a frame sent to the client: its type, the segment it is about, and the
\* session's epoch at the moment it is sent
Frame(type, segment_id, epoch, size) ==
  [type |-> type, segment_id |-> segment_id, epoch |-> epoch, size |-> size,
   history |-> <<>>]

\* mutant of EngineUnavailable: the missing engine goes unnoticed
EngineUnavailableNever(eng) == FALSE

\* ws.py 238: if engine_local is None (after the engine task was consulted)
EngineUnavailable(eng) == eng = None

\* mutant of NextSegmentId: the segment id is left as it is
NextSegmentIdSame(id) == id

\* ws.py 222 and 430: current_segment_id += 1
NextSegmentId(id) == id + 1

\* segmenter._process on a non-empty buffer b, and on_segment_ready up to its
\* first wait: the loop goes on (rest of the iteration) or parks in the callback.
CloseSegment(b) ==
  /\ buffer' = <<>>
  /\ pushed' = <<>>
  /\ segments_ready' = Append(segments_ready, b)
  /\ current_segment_id' = NextSegmentId(current_segment_id)
  /\ last_processed_size' = 0
  /\ UNCHANGED final_history
  /\ IF engine_local = None /\ ~EngineTaskDone
     THEN /\ loop_pc' = "final_engine"
          /\ pending_segment' = Copy(b)
          /\ UNCHANGED <<engine_local, last_sent, partial_tasks>>
     ELSE LET eng == IF engine_local = None THEN EngineTaskResult ELSE engine_local
          IN /\ engine_local' = eng
             /\ IF EngineUnavailable(eng)
                THEN /\ last_sent' = Frame("error", current_segment_id, current_segment_id + 1, 0)
                     /\ partial_tasks' = SchedulePartial
                     /\ UNCHANGED <<loop_pc, pending_segment>>
                ELSE /\ loop_pc' = "final_infer"
                     /\ pending_segment' = Copy(b)
                     /\ UNCHANGED <<last_sent, partial_tasks>>

\* the segmenter call closed nothing: the iteration runs to its end
NoClose ==
  /\ partial_tasks' = SchedulePartial
  /\ UNCHANGED <<segments_ready, current_segment_id, last_processed_size, final_history,
                 loop_pc, pending_segment, engine_local, last_sent>>

\* mutant of ProcessSkips: an empty buffer is closed like any other
ProcessSkipsNever(b) == FALSE

\* segmenter.py 27-28: if self.buffer.size == 0: return
ProcessSkips(b) == BufferSize(b) = 0

\* segmenter._process with the buffer holding b
Process(b) ==
  IF ProcessSkips(b)
  THEN buffer' = b /\ pushed' = pushed /\ NoClose
  ELSE current_segment_id < MaxEpoch /\ CloseSegment(b)

\* asyncio.wait returned with a frame, at once or as late as the timeout allows
Received ==
  /\ LoopAtWait
  /\ time_since_activity' = 0
  /\ \E d \in {0, WaitTimeout} : time_diff' = Elapse(time_diff, d, PartialCap)

\* a binary frame: segmenter.push_audio_chunk
ReceiveAudio(size) ==
  /\ UNCHANGED <<supervisor_vars, text_vars, estimator_vars, proc_lock>>
  /\ last_partial' = "none"
  /\ Received
  /\ IF size = 0
     THEN NoClose /\ UNCHANGED <<buffer, pushed, next_chunk_id>>
     ELSE /\ next_chunk_id <= MaxChunks
          /\ next_chunk_id' = next_chunk_id + 1
          /\ LET chunk == [id |-> next_chunk_id, size |-> size]
                 nb == Concatenate(buffer, chunk)
             IN IF PushClosesSegment(BufferSize(nb))
                THEN Process(nb)
                ELSE buffer' = nb /\ pushed' = Append(pushed, chunk) /\ NoClose
  /\ UNCHANGED <<current_model, engine_task, min_seconds, partial_interval_ms,
                 is_processing_partial, flush_calls, socket_counts>>

\* {"type": "silence"}: segmenter.notify_silence
ReceiveSilence ==
  /\ UNCHANGED <<supervisor_vars, text_vars, estimator_vars, proc_lock>>
  /\ last_partial' = "none"
  /\ Received
  /\ IF SilenceClosesSegment(BufferSize(buffer), min_seconds)
     THEN Process(buffer)
     ELSE NoClose /\ UNCHANGED <<buffer, pushed>>
  /\ UNCHANGED <<current_model, engine_task, min_seconds, partial_interval_ms,
                 is_processing_partial, flush_calls, socket_counts,
                 next_chunk_id>>

\* mutant of EngineAfterSwitch: the engine of the model left is kept
EngineAfterSwitchKept(eng) == eng

\* ws.py 427: engine_local = None
EngineAfterSwitch(eng) == None

\* {"type": "select_model", "model": new_model}
ReceiveSelectModel(new_model) ==
  /\ UNCHANGED <<supervisor_vars, text_vars, estimator_vars, proc_lock>>
  /\ last_partial' = "none"
  /\ Received
  /\ IF new_model # None /\ new_model # current_model
     THEN /\ current_segment_id < MaxEpoch
          /\ socket_counts' = UpdateSocketCount(UpdateSocketCount(socket_counts, current_model, -1),
                                                new_model, 1)
          /\ current_model' = new_model
          /\ engine_local' = EngineAfterSwitch(engine_local)
          /\ buffer' = Reset(buffer)
          /\ pushed' = Reset(pushed)
          /\ current_segment_id' = NextSegmentId(current_segment_id)
          /\ last_processed_size' = 0
          /\ engine_task' = [model |-> new_model, state |-> "pending"]
     ELSE UNCHANGED <<socket_counts, current_model, engine_local, buffer, pushed,
                      current_segment_id,
                      last_processed_size, engine_task>>
  /\ partial_tasks' = SchedulePartial
  /\ UNCHANGED <<min_seconds, partial_interval_ms, is_processing_partial, flush_calls,
                 next_chunk_id, segments_ready, final_history, loop_pc, pending_segment, last_sent>>

\* {"type": "set_params", ...}; control holds the keys the frame carries
ReceiveSetParams(control) ==
  /\ UNCHANGED <<supervisor_vars, text_vars, estimator_vars, proc_lock>>
  /\ last_partial' = "none"
  /\ Received
  /\ min_seconds' = IF "min_seconds" \in DOMAIN control
                    THEN control["min_seconds"] ELSE min_seconds
  /\ partial_interval_ms' = IF "partial_interval" \in DOMAIN control
                            THEN control["partial_interval"] ELSE partial_interval_ms
  /\ partial_tasks' = SchedulePartial
  /\ UNCHANGED <<current_model, engine_local, engine_task, current_segment_id,
                 last_processed_size, is_processing_partial, buffer, final_history,
                 pending_segment, last_sent, segments_ready, flush_calls, pushed, next_chunk_id,
                 socket_counts, loop_pc>>

SetParamsFrames ==
  {[k \in {"min_seconds"} |-> v] : v \in ParamMinSeconds}
    \cup {[k \in {"partial_interval"} |-> v] : v \in ParamPartialInterval}

\* a text frame that is not JSON: `continue`, the rest of the iteration is skipped
ReceiveMalformed ==
  /\ UNCHANGED <<supervisor_vars, text_vars, estimator_vars, proc_lock>>
  /\ last_partial' = "none"
  /\ Received
  /\ UNCHANGED <<current_model, engine_local, engine_task, min_seconds, partial_interval_ms,
                 current_segment_id, last_processed_size, is_processing_partial,
                 partial_tasks, buffer, final_history, pending_segment, last_sent,
                 segments_ready, flush_calls, pushed, next_chunk_id,
                 socket_counts, loop_pc>>

\* a JSON object whose "type" is none of the known ones (or is missing): no
\* branch is taken and the iteration runs to its end
ReceiveUnknownType ==
  /\ UNCHANGED <<supervisor_vars, text_vars, estimator_vars, proc_lock>>
  /\ last_partial' = "none"
  /\ Received
  /\ partial_tasks' = SchedulePartial
  /\ UNCHANGED <<current_model, engine_local, engine_task, min_seconds, partial_interval_ms,
                 current_segment_id, last_processed_size, is_processing_partial,
                 buffer, final_history, pending_segment, last_sent,
                 segments_ready, flush_calls, pushed, next_chunk_id,
                 socket_counts, loop_pc>>

\* the text frames whose handling raises: JSON that is not an object
\* (control.get raises AttributeError), and a set_params whose min_seconds or
\* partial_interval float() cannot convert (ValueError, TypeError)
RaisingFrames == {"not_object", "bad_min_seconds", "bad_partial_interval"}

\* such a frame: the exception is neither WebSocketDisconnect nor RuntimeError,
\* so it leaves the loop; the outer handler sends an error frame and `finally`
\* runs
ReceiveRaising(frame) ==
  /\ UNCHANGED <<supervisor_vars, text_vars, estimator_vars, proc_lock>>
  /\ last_partial' = "none"
  /\ Received
  /\ frame \in RaisingFrames
  /\ last_sent' = Frame("error", current_segment_id, current_segment_id, 0)
  /\ loop_pc' = "closed"
  /\ socket_counts' = UpdateSocketCount(socket_counts, current_model, -1)
  /\ UNCHANGED <<current_model, engine_local, engine_task, min_seconds, partial_interval_ms,
                 current_segment_id, last_processed_size, is_processing_partial,
                 partial_tasks, buffer, final_history, pending_segment,
                 segments_ready, flush_calls, pushed, next_chunk_id>>

\* the client goes away: receive raises, the loop breaks, `finally` runs
Disconnect ==
  /\ UNCHANGED <<supervisor_vars, text_vars, estimator_vars, proc_lock>>
  /\ last_partial' = "none"
  /\ LoopAtWait
  /\ loop_pc' = "closed"
  /\ socket_counts' = UpdateSocketCount(socket_counts, current_model, -1)
  /\ UNCHANGED <<current_model, engine_local, engine_task, min_seconds, partial_interval_ms,
                 current_segment_id, last_processed_size, is_processing_partial,
                 partial_tasks, buffer, time_since_activity, time_diff, final_history,
                 pending_segment, last_sent, segments_ready, flush_calls, pushed, next_chunk_id>>

\* ws.py 461: time.time() - last_activity_time >= min_seconds
SilenceTimeout(idle) == idle >= min_seconds

\* asyncio.wait returned without a frame (timeout, or only the partial task done).
\* On a silence timeout the loop calls segmenter.flush(); AudioSegmenter defines no
\* flush, so the call raises AttributeError, which only the outer handler catches:
\* an error frame is sent and the endpoint returns.
Timeout ==
  /\ UNCHANGED <<supervisor_vars, text_vars, estimator_vars, proc_lock>>
  /\ last_partial' = "none"
  /\ LoopAtWait
  /\ \E d \in {0, WaitTimeout} :
       /\ time_diff' = Elapse(time_diff, d, PartialCap)
       /\ time_since_activity' = Elapse(time_since_activity, d, IdleCap)
  /\ IF SilenceTimeout(time_since_activity')
     THEN /\ flush_calls' = 1
          /\ last_sent' = Frame("error", current_segment_id, current_segment_id, 0)
          /\ loop_pc' = "closed"
          /\ socket_counts' = UpdateSocketCount(socket_counts, current_model, -1)
          /\ UNCHANGED partial_tasks
     ELSE /\ partial_tasks' = SchedulePartial
          /\ UNCHANGED <<flush_calls, last_sent, loop_pc, socket_counts>>
  /\ UNCHANGED <<current_model, engine_local, engine_task, min_seconds, partial_interval_ms,
                 current_segment_id, last_processed_size, is_processing_partial,
                 buffer, final_history, pending_segment, segments_ready, pushed, next_chunk_id>>

\* mutant of PartialFresh: the segment check is dropped
PartialFreshAlways(my_segment_id, segment_id) == TRUE

\* mutant of PartialFresh: a partial of an earlier segment counts as fresh
PartialFreshOrOlder(my_segment_id, segment_id) == my_segment_id <= segment_id

\* ws.py 343: the partial's captured segment id against the current one
PartialFresh(my_segment_id, segment_id) == my_segment_id = segment_id

\* mutant of RateLimited: no attempt is held back
RateLimitedNever(diff, interval) == FALSE

\* ws.py 288-291: time_diff < partial_interval_ms, with time_diff = now - last_partial_time
RateLimited(diff, interval) == diff < interval

\* mutant of BufferNotGrown: the attempt goes on whatever was processed before
BufferNotGrownNever(current_size, processed_size) == FALSE

\* ws.py 300: if current_size <= last_processed_size: return
BufferNotGrown(current_size, processed_size) == current_size <= processed_size

\* process_partial from its start to its first wait (run_in_executor), or to an
\* early return
PartialFirstStep ==
  /\ UNCHANGED <<supervisor_vars, text_vars, estimator_vars, proc_lock>>
  /\ last_partial' = IF /\ ~is_processing_partial
                        /\ partial_interval_ms >= PARTIAL_MIN_INTERVAL
                        /\ RateLimited(time_diff, partial_interval_ms)
                     THEN "rate_limited" ELSE "none"
  /\ \E t \in partial_tasks :
       /\ t.pc = "created"
       /\ LET current_size == BufferSize(buffer)
              eng == IF engine_local = None /\ EngineTaskDone THEN EngineTaskResult
                     ELSE engine_local
              skip == \/ is_processing_partial
                      \/ partial_interval_ms < PARTIAL_MIN_INTERVAL
                      \/ RateLimited(time_diff, partial_interval_ms)
                      \/ current_size * 2 < SAMPLE_RATE
                      \/ BufferNotGrown(current_size, last_processed_size)
                      \/ (engine_local = None /\ ~EngineTaskDone)
          IN IF skip
             THEN /\ partial_tasks' = partial_tasks \ {t}
                  /\ UNCHANGED <<is_processing_partial, time_diff, engine_local>>
             ELSE /\ is_processing_partial' = TRUE
                  /\ time_diff' = 0
                  /\ engine_local' = eng
                  /\ partial_tasks' = (partial_tasks \ {t}) \cup
                         {[pc |-> "inferring", latest |-> t.latest, engine |-> eng,
                           my_segment_id |-> current_segment_id,
                           current_size |-> current_size,
                           audio_copy |-> Copy(buffer)]}
  /\ UNCHANGED <<loop_pc, current_model, engine_task, min_seconds, partial_interval_ms,
                 current_segment_id, last_processed_size, buffer, time_since_activity,
                 final_history, pending_segment, last_sent, segments_ready, flush_calls,
                 pushed, next_chunk_id, socket_counts>>

\* the executor call of a partial returns (text after filtering non-empty, empty,
\* or an exception) and process_partial runs to its end. The lambda of ws.py 326
\* reads engine_local when the executor thread runs it: t.engine is the value at
\* the start of the call, and engine_local keeps that value for as long as the
\* segment id does (C37); without an engine all that time the call can only
\* raise, otherwise every outcome is possible
PartialReturn(outcome) ==
  /\ UNCHANGED <<supervisor_vars, text_vars, estimator_vars, proc_lock>>
  /\ \E t \in partial_tasks :
       /\ t.pc = "inferring"
       /\ (t.engine = None /\ t.my_segment_id = current_segment_id) => outcome = "error"
       /\ IF outcome = "text" /\ PartialFresh(t.my_segment_id, current_segment_id)
          THEN /\ last_processed_size' = t.current_size
               /\ last_sent' = Frame("partial", t.my_segment_id, current_segment_id,
                                     t.current_size)
               /\ last_partial' = "applied"
          ELSE /\ UNCHANGED <<last_processed_size, last_sent>>
               /\ last_partial' = CASE outcome = "text" -> "discarded"
                                     [] outcome = "empty" -> "empty"
                                     [] OTHER -> "failed"
       /\ partial_tasks' = partial_tasks \ {t}
  /\ is_processing_partial' = FALSE
  /\ UNCHANGED <<loop_pc, current_model, engine_local, engine_task, min_seconds,
                 partial_interval_ms, current_segment_id, buffer, time_since_activity,
                 time_diff, final_history, pending_segment, segments_ready, flush_calls,
                 pushed, next_chunk_id, socket_counts>>

\* load_engine returns the engine, or None after sending an error frame
EngineTaskFinish(outcome) ==
  /\ UNCHANGED <<supervisor_vars, text_vars, estimator_vars, proc_lock>>
  /\ last_partial' = "none"
  /\ engine_task.state = "pending"
  /\ loop_pc # "closed"
  /\ engine_task' = [engine_task EXCEPT !.state = outcome]
  /\ last_sent' = IF outcome = "failed"
             THEN Frame("error", current_segment_id, current_segment_id, 0) ELSE last_sent
  /\ UNCHANGED <<loop_pc, current_model, engine_local, min_seconds, partial_interval_ms,
                 current_segment_id, last_processed_size, is_processing_partial,
                 partial_tasks, buffer, time_since_activity, time_diff, final_history,
                 pending_segment, segments_ready, flush_calls, pushed, next_chunk_id, socket_counts>>

\* on_segment_ready resumes from `await engine_task`
FinalEngineReady ==
  /\ UNCHANGED <<supervisor_vars, text_vars, estimator_vars, proc_lock>>
  /\ last_partial' = "none"
  /\ loop_pc = "final_engine"
  /\ EngineTaskDone
  /\ engine_local' = EngineTaskResult
  /\ IF EngineUnavailable(EngineTaskResult)
     THEN /\ last_sent' = Frame("error", current_segment_id, current_segment_id, 0)
          /\ loop_pc' = "wait"
          /\ pending_segment' = <<>>
          /\ partial_tasks' = SchedulePartial
     ELSE /\ loop_pc' = "final_infer"
          /\ UNCHANGED <<last_sent, pending_segment, partial_tasks>>
  /\ UNCHANGED <<current_model, engine_task, min_seconds, partial_interval_ms,
                 current_segment_id, last_processed_size, is_processing_partial, buffer,
                 time_since_activity, time_diff, final_history, segments_ready,
                 flush_calls, pushed, next_chunk_id, socket_counts>>

\* what the engine can return as the text of a final transcription: a
\* denylisted phrase, a text of non-Latin letters only, a Latin text with
\* surrounding whitespace; an empty (or missing) text is the outcome "empty"
FinalResultTexts == {<<"Y", "o", "u">>, <<"ya">>, <<" ", "o">>}

\* the rest of on_segment_ready and of the loop iteration, from the return of
\* the executor call after dur ms: raw is result.get("text") or ""
FinalReturnText(outcome, raw, dur) ==
  /\ UNCHANGED <<supervisor_vars, text_vars, estimator_vars, proc_lock>>
  /\ last_partial' = "none"
  /\ loop_pc = "final_infer"
  /\ LET final_text == IF outcome = "error" THEN <<>>
                       ELSE NormaliseText(raw, allow_non_latin)
     IN IF final_text # <<>>
        THEN /\ final_history' = Append(final_history, final_text)
             /\ last_sent' = [Frame("final", current_segment_id - 1, current_segment_id,
                                    BufferSize(pending_segment))
                                EXCEPT !.history = final_history']
        ELSE /\ UNCHANGED final_history
             /\ last_sent' = IF outcome = "error"
                        THEN Frame("error", current_segment_id, current_segment_id, 0) ELSE last_sent
  /\ loop_pc' = "wait"
  /\ pending_segment' = <<>>
  /\ partial_tasks' = SchedulePartial
  /\ time_since_activity' = Elapse(time_since_activity, dur, IdleCap)
  /\ time_diff' = Elapse(time_diff, dur, PartialCap)
  /\ UNCHANGED <<current_model, engine_local, engine_task, min_seconds, partial_interval_ms,
                 current_segment_id, last_processed_size, is_processing_partial, buffer,
                 segments_ready, flush_calls, pushed, next_chunk_id,
                 socket_counts>>

\* the executor call of the final transcription returns a result with a text
\* ("text"), a result without one ("empty"), or raises ("error")
FinalReturn(outcome, dur) ==
  \E raw \in (IF outcome = "text" THEN FinalResultTexts ELSE {<<>>}) :
    FinalReturnText(outcome, raw, dur)

InferOutcomes == {"text", "empty", "error"}

SessionNext ==
  \/ SetupDone
  \/ SetupFailed
  \/ \E size \in ChunkSizes : ReceiveAudio(size)
  \/ ReceiveSilence
  \/ \E m \in Models \cup {None} : ReceiveSelectModel(m)
  \/ \E c \in SetParamsFrames : ReceiveSetParams(c)
  \/ ReceiveMalformed
  \/ ReceiveUnknownType
  \/ \E f \in RaisingFrames : ReceiveRaising(f)
  \/ Timeout
  \/ Disconnect
  \/ PartialFirstStep
  \/ \E o \in InferOutcomes : PartialReturn(o)
  \/ \E o \in {"ok", "failed"} : EngineTaskFinish(o)
  \/ FinalEngineReady
  \/ \E o \in InferOutcomes, dur \in InferDurations : FinalReturn(o, dur)

\* ------------------------------------------------------------- supervisor
Threads == {"t1", "t2"}
BASE_PORT == 9000
Pids == 1..MaxSpawns
NoProcess == [port |-> 0, pid |-> 0, active_requests |-> 0, total_requests |-> 0,
              total_partials |-> 0, total_finals |-> 0]
NoCall == [model |-> None, is_partial |-> FALSE, pid |-> 0, port |-> 0, fresh |-> FALSE]

SupervisorInit ==
  /\ processes = [m \in Models |-> NoProcess]
  /\ os_procs = [p \in Pids |-> [model |-> None, port |-> 0, state |-> "unspawned"]]
  /\ manager_lock = None
  /\ pc = [t \in Threads |-> "idle"]
  /\ call = [t \in Threads |-> NoCall]
  /\ last_stop = "none"
  /\ dispatches = 0

\* model_name in self.processes
Registered(m) == processes[m].port # 0

\* proc.poll() is None
Alive(pid) == pid # 0 /\ os_procs[pid].state \in {"starting", "listening"}

\* WhisperServerProcess.is_running
IsRunning(m) == Alive(processes[m].pid)

Listening(port) == \E p \in Pids : os_procs[p].state = "listening" /\ os_procs[p].port = port

NextPid == CHOOSE p \in Pids : os_procs[p].state = "unspawned"
                                 /\ \A q \in Pids : os_procs[q].state = "unspawned" => p <= q

\* _reserve_port: the first port from base_port that can be bound now
ReservePort == CHOOSE p \in BASE_PORT..(BASE_PORT + MaxSpawns) :
                 /\ ~Listening(p)
                 /\ \A q \in BASE_PORT..(p - 1) : Listening(q)

Spawn(m, port) == [os_procs EXCEPT ![NextPid] = [model |-> m, port |-> port, state |-> "starting"]]

\* a thread calls transcribe_array(model_name, audio, language, is_partial)
CallTranscribe(t, m, is_partial) ==
  /\ UNCHANGED <<session_vars, text_vars, estimator_vars, proc_lock>>
  /\ pc[t] = "idle"
  /\ dispatches < MaxDispatches
  /\ dispatches' = dispatches + 1
  /\ pc' = [pc EXCEPT ![t] = "get_or_start"]
  /\ call' = [call EXCEPT ![t] = [NoCall EXCEPT !.model = m, !.is_partial = is_partial]]
  /\ last_stop' = "none"
  /\ UNCHANGED <<processes, os_procs, manager_lock>>

\* _get_or_start takes manager_lock and either returns the running process of the
\* model at once, or spawns one (restart of a registered process, or a new
\* WhisperServerProcess on a reserved port) and goes on to wait for it, lock held
GetOrStart(t) ==
  /\ UNCHANGED <<session_vars, text_vars, estimator_vars, proc_lock>>
  /\ pc[t] = "get_or_start"
  /\ manager_lock = None
  /\ LET m == call[t].model
     IN IF Registered(m) /\ IsRunning(m)
        THEN /\ pc' = [pc EXCEPT ![t] = "increment"]
             /\ call' = [call EXCEPT ![t].pid = processes[m].pid, ![t].port = processes[m].port]
             /\ UNCHANGED <<processes, os_procs, manager_lock>>
        ELSE /\ \E p \in Pids : os_procs[p].state = "unspawned"
             /\ manager_lock' = t
             /\ pc' = [pc EXCEPT ![t] = "start_wait"]
             /\ LET port == IF Registered(m) THEN processes[m].port ELSE ReservePort
                IN /\ os_procs' = Spawn(m, port)
                   /\ call' = [call EXCEPT ![t].pid = NextPid, ![t].port = port,
                                            ![t].fresh = ~Registered(m)]
                   /\ processes' = IF Registered(m)
                                   THEN [processes EXCEPT ![m].pid = NextPid]
                                   ELSE processes
  /\ last_stop' = "none"
  /\ UNCHANGED dispatches

\* self.proc of the WhisperServerProcess being started by t
StartProc(t) == IF call[t].fresh THEN call[t].pid ELSE processes[call[t].model].pid

\* self.proc and self.proc.poll() is not None
SeenExited(pid) == pid # 0 /\ os_procs[pid].state \in {"exited", "terminated"}

\* start(): the port accepted a connection; _get_or_start registers a new
\* process and returns it
StartConnected(t) ==
  /\ UNCHANGED <<session_vars, text_vars, estimator_vars, proc_lock>>
  /\ pc[t] = "start_wait"
  /\ ~SeenExited(StartProc(t))
  /\ Listening(call[t].port)
  /\ call' = [call EXCEPT ![t].pid = StartProc(t)]
  /\ processes' = IF call[t].fresh
                  THEN [processes EXCEPT ![call[t].model] =
                          [NoProcess EXCEPT !.port = call[t].port, !.pid = call[t].pid]]
                  ELSE processes
  /\ manager_lock' = None
  /\ pc' = [pc EXCEPT ![t] = "increment"]
  /\ last_stop' = "none"
  /\ UNCHANGED <<os_procs, dispatches>>

\* start(): the spawned process is seen exited, or the startup timeout elapses
\* with the port still not connectable; RuntimeError leaves _get_or_start and
\* transcribe_array, the spawned process is left as it is
StartFailed(t) ==
  /\ UNCHANGED <<session_vars, text_vars, estimator_vars, proc_lock>>
  /\ pc[t] = "start_wait"
  /\ \/ SeenExited(StartProc(t))
     \/ ~Listening(call[t].port)
  /\ manager_lock' = None
  /\ pc' = [pc EXCEPT ![t] = "idle"]
  /\ call' = [call EXCEPT ![t] = NoCall]
  /\ last_stop' = "none"
  /\ UNCHANGED <<processes, os_procs, dispatches>>

\* lines 200-205: with proc.lock: proc.active_requests += 1, then the temporary
\* WAV file is written, before the try; a failure there leaves transcribe_array
Increment(t, prepared) ==
  /\ UNCHANGED <<session_vars, text_vars, estimator_vars, proc_lock>>
  /\ pc[t] = "increment"
  /\ processes' = [processes EXCEPT ![call[t].model].active_requests = @ + 1]
  /\ pc' = [pc EXCEPT ![t] = IF prepared THEN "post" ELSE "idle"]
  /\ call' = [call EXCEPT ![t] = IF prepared THEN @ ELSE NoCall]
  /\ last_stop' = "none"
  /\ UNCHANGED <<os_procs, manager_lock, dispatches>>

\* mutant of increment_stats: a final request is counted in total_requests only
IncrementStatsLosingFinals(p, is_partial) ==
  [p EXCEPT !.total_requests = @ + 1,
            !.total_partials = IF is_partial THEN @ + 1 ELSE @]

\* WhisperServerProcess.increment_stats, the three updates under self.lock
increment_stats(p, is_partial) ==
  [p EXCEPT !.total_requests = @ + 1,
            !.total_partials = IF is_partial THEN @ + 1 ELSE @,
            !.total_finals = IF is_partial THEN @ ELSE @ + 1]

\* lines 216-225: session.post returns a response (its status ok or not; latency
\* and stats are recorded first) or raises (timeout, connection failure); then
\* finally: with proc.lock: proc.active_requests -= 1
Post(t, outcome) ==
  /\ UNCHANGED <<session_vars, text_vars, estimator_vars, proc_lock>>
  /\ pc[t] = "post"
  /\ outcome \in {"ok", "http_error"} => Listening(call[t].port)
  /\ LET m == call[t].model
         responded == outcome \in {"ok", "http_error"}
         recorded == IF responded THEN increment_stats(processes[m], call[t].is_partial)
                     ELSE processes[m]
     IN processes' = [processes EXCEPT
          ![m] = [recorded EXCEPT !.active_requests = @ - 1]]
  /\ pc' = [pc EXCEPT ![t] = "idle"]
  /\ call' = [call EXCEPT ![t] = NoCall]
  /\ last_stop' = "none"
  /\ UNCHANGED <<os_procs, manager_lock, dispatches>>

\* stop_server(model_name), lines 256-258: look the process up
CallStop(t, m) ==
  /\ UNCHANGED <<session_vars, text_vars, estimator_vars, proc_lock>>
  /\ pc[t] = "idle"
  /\ IF ~Registered(m) \/ ~IsRunning(m)
     THEN /\ last_stop' = "not_found"
          /\ UNCHANGED <<pc, call>>
     ELSE /\ last_stop' = "none"
          /\ call' = [call EXCEPT ![t] = [NoCall EXCEPT !.model = m]]
          /\ pc' = [pc EXCEPT ![t] = "stop_check"]
  /\ UNCHANGED <<processes, os_procs, manager_lock, dispatches>>

\* mutant of StopRefused: one active request is tolerated
StopRefusedAboveOne(active_requests) == active_requests > 1

\* line 259: proc.active_requests > 0
StopRefused(active_requests) == active_requests > 0

\* stop_server, lines 259-260: refuse while requests are active
StopCheck(t) ==
  /\ UNCHANGED <<session_vars, text_vars, estimator_vars, proc_lock>>
  /\ pc[t] = "stop_check"
  /\ IF StopRefused(processes[call[t].model].active_requests)
     THEN /\ last_stop' = "conflict"
          /\ pc' = [pc EXCEPT ![t] = "idle"]
          /\ call' = [call EXCEPT ![t] = NoCall]
     ELSE /\ pc' = [pc EXCEPT ![t] = "stop_terminate"]
          /\ last_stop' = "none"
          /\ UNCHANGED call
  /\ UNCHANGED <<processes, os_procs, manager_lock, dispatches>>

\* stop_server, lines 261-262: proc.stop() terminates the process if it is alive
\* and clears proc.proc
StopTerminate(t) ==
  /\ UNCHANGED <<session_vars, text_vars, estimator_vars, proc_lock>>
  /\ pc[t] = "stop_terminate"
  /\ LET pid == processes[call[t].model].pid
     IN os_procs' = IF Alive(pid) THEN [os_procs EXCEPT ![pid].state = "terminated"]
                    ELSE os_procs
  /\ processes' = [processes EXCEPT ![call[t].model].pid = 0]
  /\ last_stop' = "stopped"
  /\ pc' = [pc EXCEPT ![t] = "idle"]
  /\ call' = [call EXCEPT ![t] = NoCall]
  /\ UNCHANGED <<manager_lock, dispatches>>

\* the spawned whisper-server binds its port, unless the port is taken
OsBind(p) ==
  /\ UNCHANGED <<session_vars, text_vars, estimator_vars, proc_lock>>
  /\ os_procs[p].state = "starting"
  /\ os_procs' = [os_procs EXCEPT ![p].state =
                     IF Listening(os_procs[p].port) THEN "exited" ELSE "listening"]
  /\ last_stop' = "none"
  /\ UNCHANGED <<processes, manager_lock, pc, call, dispatches>>

\* the whisper-server exits on its own
OsExit(p) ==
  /\ UNCHANGED <<session_vars, text_vars, estimator_vars, proc_lock>>
  /\ Alive(p)
  /\ os_procs' = [os_procs EXCEPT ![p].state = "exited"]
  /\ last_stop' = "none"
  /\ UNCHANGED <<processes, manager_lock, pc, call, dispatches>>

SupervisorNext ==
  \/ \E t \in Threads, m \in Models, ip \in BOOLEAN : CallTranscribe(t, m, ip)
  \/ \E t \in Threads : GetOrStart(t)
  \/ \E t \in Threads : StartConnected(t)
  \/ \E t \in Threads : StartFailed(t)
  \/ \E t \in Threads, prepared \in BOOLEAN : Increment(t, prepared)
  \/ \E t \in Threads, o \in {"ok", "http_error", "no_response"} : Post(t, o)
  \/ \E t \in Threads, m \in Models : CallStop(t, m)
  \/ \E t \in Threads : StopCheck(t)
  \/ \E t \in Threads : StopTerminate(t)
  \/ \E p \in Pids : OsBind(p)
  \/ \E p \in Pids : OsExit(p)

\* ------------------------------------------------------ supervisor locks
\* The same calls step by step through their lock sections: manager_lock
\* (threading.Lock, whisper_server_client.py 142) and the lock of each
\* WhisperServerProcess (line 23). What the operating system answers (whether
\* a process is alive, whether its port accepts a connection) is an input of
\* the step that asks; os_procs is not used here.
LocksInit == proc_lock = [m \in Models |-> None]

session_vars_but_counts ==
  <<loop_pc, current_model, engine_local, engine_task, min_seconds,
    partial_interval_ms, current_segment_id, last_processed_size,
    is_processing_partial, partial_tasks, buffer, time_since_activity,
    time_diff, final_history, pending_segment, last_sent, segments_ready,
    flush_calls, pushed, last_partial, next_chunk_id>>

LockModel(t) == call[t].model

\* pc values at which a thread is blocked in `with self.manager_lock`
WaitsForManagerLock(t) == pc[t] \in {"get_or_start", "socket_lock"}

\* pc values at which a thread is blocked in `with self.lock` / `with proc.lock`
WaitsForProcLock(t) ==
  pc[t] \in {"start_lock", "count_lock", "latency_lock", "stats_lock", "finally_lock",
             "stop_lock"}

\* _get_or_start, line 170: manager_lock is taken; lines 171-179 find the
\* registered process or make a new one (found = FALSE: _resolve_model or the
\* binary check raises FileNotFoundError and the lock is released)
LockGetOrStart(t, found) ==
  /\ pc[t] = "get_or_start"
  /\ manager_lock = None
  /\ IF Registered(LockModel(t)) \/ found
     THEN /\ manager_lock' = t
          /\ pc' = [pc EXCEPT ![t] = "start_lock"]
          /\ call' = [call EXCEPT ![t].fresh = ~Registered(LockModel(t))]
     ELSE /\ pc' = [pc EXCEPT ![t] = "idle"]
          /\ call' = [call EXCEPT ![t] = NoCall]
          /\ UNCHANGED manager_lock
  /\ UNCHANGED <<processes, os_procs, last_stop, dispatches, proc_lock>>
  /\ UNCHANGED <<session_vars, text_vars, estimator_vars>>

\* a `with proc.lock:` is entered by thread t at pc `from`
EnterProcLock(t, from, to) ==
  /\ pc[t] = from
  /\ proc_lock[LockModel(t)] = None
  /\ proc_lock' = [proc_lock EXCEPT ![LockModel(t)] = t]
  /\ pc' = [pc EXCEPT ![t] = to]
  /\ UNCHANGED <<processes, os_procs, manager_lock, call, last_stop, dispatches>>
  /\ UNCHANGED <<session_vars, text_vars, estimator_vars>>

\* start(), line 43: with self.lock, manager_lock held
LockStartEnter(t) == EnterProcLock(t, "start_lock", "start_locked")

\* mutant of ManagerLockAfterStart: the lock is not released when start() raises
ManagerLockKeptOnFailure(t, outcome) == IF outcome = "failed" THEN t ELSE None

\* lines 170-183: `with self.manager_lock` releases the lock when
\* _get_or_start returns and when start() raises
ManagerLockAfterStart(t, outcome) == None

\* start(), lines 44-63: a process that is alive makes start() and
\* _get_or_start return at once; otherwise whisper-server is spawned and the
\* lock of the process is left for the polling loop
LockStartLeave(t, alive) ==
  /\ pc[t] = "start_locked"
  /\ alive => ~call[t].fresh
  /\ proc_lock' = [proc_lock EXCEPT ![LockModel(t)] = None]
  /\ IF alive
     THEN /\ manager_lock' = ManagerLockAfterStart(t, "connected")
          /\ pc' = [pc EXCEPT ![t] = "count_lock"]
     ELSE /\ pc' = [pc EXCEPT ![t] = "start_wait"]
          /\ UNCHANGED manager_lock
  /\ UNCHANGED <<processes, os_procs, call, last_stop, dispatches>>
  /\ UNCHANGED <<session_vars, text_vars, estimator_vars>>

\* start(), lines 65-79, and the rest of _get_or_start: the port accepted a
\* connection (a new process is registered, line 181), or the process exited
\* or the timeout elapsed (RuntimeError leaves transcribe_array)
LockStartDone(t, outcome) ==
  /\ pc[t] = "start_wait"
  /\ manager_lock' = ManagerLockAfterStart(t, outcome)
  /\ IF outcome = "connected"
     THEN /\ processes' = IF call[t].fresh
                          THEN [processes EXCEPT ![LockModel(t)] =
                                  [NoProcess EXCEPT !.port = ReservePort]]
                          ELSE processes
          /\ pc' = [pc EXCEPT ![t] = "count_lock"]
          /\ UNCHANGED call
     ELSE /\ pc' = [pc EXCEPT ![t] = "idle"]
          /\ call' = [call EXCEPT ![t] = NoCall]
          /\ UNCHANGED processes
  /\ UNCHANGED <<os_procs, last_stop, dispatches, proc_lock>>
  /\ UNCHANGED <<session_vars, text_vars, estimator_vars>>

\* transcribe_array, line 200: with proc.lock
LockCountEnter(t) == EnterProcLock(t, "count_lock", "count_locked")

\* lines 201-205: proc.active_requests += 1, the lock is left, the WAV file is
\* written (a failure there leaves transcribe_array)
LockCountLeave(t, prepared) ==
  /\ pc[t] = "count_locked"
  /\ proc_lock' = [proc_lock EXCEPT ![LockModel(t)] = None]
  /\ processes' = [processes EXCEPT ![LockModel(t)].active_requests = @ + 1]
  /\ pc' = [pc EXCEPT ![t] = IF prepared THEN "post" ELSE "idle"]
  /\ call' = [call EXCEPT ![t] = IF prepared THEN @ ELSE NoCall]
  /\ UNCHANGED <<os_procs, manager_lock, last_stop, dispatches>>
  /\ UNCHANGED <<session_vars, text_vars, estimator_vars>>

\* line 216: session.post returns a response, or raises after at most 120 s
LockPost(t, responded) ==
  /\ pc[t] = "post"
  /\ pc' = [pc EXCEPT ![t] = IF responded THEN "latency_lock" ELSE "finally_lock"]
  /\ UNCHANGED <<processes, os_procs, manager_lock, call, last_stop, dispatches, proc_lock>>
  /\ UNCHANGED <<session_vars, text_vars, estimator_vars>>

\* a `with self.lock:` of thread t is left, the process record becoming p
LeaveProcLock(t, from, to, p) ==
  /\ pc[t] = from
  /\ proc_lock' = [proc_lock EXCEPT ![LockModel(t)] = None]
  /\ processes' = [processes EXCEPT ![LockModel(t)] = p]
  /\ pc' = [pc EXCEPT ![t] = to]
  /\ call' = [call EXCEPT ![t] = IF to = "idle" THEN NoCall ELSE @]
  /\ UNCHANGED <<os_procs, manager_lock, last_stop, dispatches>>
  /\ UNCHANGED <<session_vars, text_vars, estimator_vars>>

\* update_latency, lines 94-100 (the average is not part of the state)
LockLatencyEnter(t) == EnterProcLock(t, "latency_lock", "latency_locked")
LockLatencyLeave(t) ==
  LeaveProcLock(t, "latency_locked", "stats_lock", processes[LockModel(t)])

\* increment_stats, lines 102-108; then raise_for_status or the return, and
\* `finally`
LockStatsEnter(t) == EnterProcLock(t, "stats_lock", "stats_locked")
LockStatsLeave(t) ==
  LeaveProcLock(t, "stats_locked", "finally_lock",
                increment_stats(processes[LockModel(t)], call[t].is_partial))

\* lines 223-225: finally: with proc.lock: proc.active_requests -= 1
LockFinallyEnter(t) == EnterProcLock(t, "finally_lock", "finally_locked")
LockFinallyLeave(t) ==
  LeaveProcLock(t, "finally_locked", "idle",
                [processes[LockModel(t)] EXCEPT !.active_requests = @ - 1])

\* stop_server, lines 255-261: a registered process that is running and has no
\* active request is stopped (is_running is the input `running`); otherwise
\* the call returns or raises before any lock
LockCallStop(t, m, running) ==
  /\ pc[t] = "idle"
  /\ dispatches < MaxDispatches
  /\ dispatches' = dispatches + 1
  /\ IF Registered(m) /\ running /\ ~StopRefused(processes[m].active_requests)
     THEN /\ pc' = [pc EXCEPT ![t] = "stop_lock"]
          /\ call' = [call EXCEPT ![t] = [NoCall EXCEPT !.model = m]]
     ELSE UNCHANGED <<pc, call>>
  /\ UNCHANGED <<processes, os_procs, manager_lock, last_stop, proc_lock>>
  /\ UNCHANGED <<session_vars, text_vars, estimator_vars>>

\* stop(), lines 81-89: with self.lock: terminate, wait up to 5 s, kill
LockStopEnter(t) == EnterProcLock(t, "stop_lock", "stop_locked")
LockStopLeave(t) ==
  LeaveProcLock(t, "stop_locked", "idle", processes[LockModel(t)])

\* a session's control loop calls update_socket_count(model_name, delta)
\* (ws.py 156, 423-425, 489)
LockCallSocketCount(t, m, delta) ==
  /\ pc[t] = "idle"
  /\ dispatches < MaxDispatches
  /\ dispatches' = dispatches + 1
  /\ pc' = [pc EXCEPT ![t] = "socket_lock"]
  /\ call' = [call EXCEPT ![t] = [NoCall EXCEPT !.model = m, !.is_partial = delta > 0]]
  /\ UNCHANGED <<processes, os_procs, manager_lock, last_stop, proc_lock>>
  /\ UNCHANGED <<session_vars, text_vars, estimator_vars>>

\* update_socket_count, line 265: with self.manager_lock
LockSocketEnter(t) ==
  /\ pc[t] = "socket_lock"
  /\ manager_lock = None
  /\ manager_lock' = t
  /\ pc' = [pc EXCEPT ![t] = "socket_locked"]
  /\ UNCHANGED <<processes, os_procs, call, last_stop, dispatches, proc_lock>>
  /\ UNCHANGED <<session_vars, text_vars, estimator_vars>>

\* lines 266-267: the count is updated and the lock is left
LockSocketLeave(t) ==
  /\ pc[t] = "socket_locked"
  /\ manager_lock' = None
  /\ socket_counts' = UpdateSocketCount(socket_counts, LockModel(t),
                                        IF call[t].is_partial THEN 1 ELSE -1)
  /\ pc' = [pc EXCEPT ![t] = "idle"]
  /\ call' = [call EXCEPT ![t] = NoCall]
  /\ UNCHANGED <<processes, os_procs, last_stop, dispatches, proc_lock>>
  /\ UNCHANGED <<session_vars_but_counts, text_vars, estimator_vars>>

\* the steps a thread takes inside a call
LockStep(t) ==
  \/ \E found \in BOOLEAN : LockGetOrStart(t, found)
  \/ LockStartEnter(t)
  \/ \E alive \in BOOLEAN : LockStartLeave(t, alive)
  \/ \E o \in {"connected", "failed"} : LockStartDone(t, o)
  \/ LockCountEnter(t)
  \/ \E prepared \in BOOLEAN : LockCountLeave(t, prepared)
  \/ \E responded \in BOOLEAN : LockPost(t, responded)
  \/ LockLatencyEnter(t)
  \/ LockLatencyLeave(t)
  \/ LockStatsEnter(t)
  \/ LockStatsLeave(t)
  \/ LockFinallyEnter(t)
  \/ LockFinallyLeave(t)
  \/ LockStopEnter(t)
  \/ LockStopLeave(t)
  \/ LockSocketEnter(t)
  \/ LockSocketLeave(t)

LocksNext ==
  \/ \E t \in Threads, m \in Models, ip \in BOOLEAN : CallTranscribe(t, m, ip)
  \/ \E t \in Threads, m \in Models, running \in BOOLEAN : LockCallStop(t, m, running)
  \/ \E t \in Threads, m \in Models, delta \in {-1, 1} : LockCallSocketCount(t, m, delta)
  \/ \E t \in Threads : LockStep(t)

\* ------------------------------------------------- text filtering steps
TextInit ==
  /\ result_text = <<>>
  /\ allow_non_latin = FALSE
  /\ text = <<>>
  /\ text_pc = "raw"

\* an engine result and a setting of the flag (ALLOW_NON_LATIN, set_params)
TextInputs ==
  /\ result_text \in Texts
  /\ allow_non_latin \in BOOLEAN
  /\ text = result_text
  /\ text_pc = "raw"

\* ws.py 253-261: strip, the denylist, the non-Latin rule
FilterText ==
  /\ text_pc = "raw"
  /\ text' = NormaliseText(result_text, allow_non_latin)
  /\ text_pc' = "filtered"
  /\ UNCHANGED <<result_text, allow_non_latin, session_vars, supervisor_vars,
               estimator_vars, proc_lock>>

TextNext == FilterText

\* ------------------------------------------- voice activity estimator
\* The estimator runs beside the server, in the client that sends the
\* "silence" frames of ws.py 417-418; it is modelled from section 4.2 of the
\* specification: a window of per-chunk RMS values of fixed capacity, the
\* oldest value evicted when a value arrives at a full window.
WINDOW_CAPACITY == 2
EnergyLevels == {0, 1, 2}

EstimatorInit ==
  /\ energy_window = <<>>
  /\ energies_arrived = <<>>

PushEnergyEvictsNewest(window, rms) ==
  IF Len(window) >= WINDOW_CAPACITY
  THEN Append(SubSeq(window, 1, Len(window) - 1), rms)
  ELSE Append(window, rms)

PushEnergy(window, rms) ==
  LET appended == Append(window, rms)
  IN  IF Len(appended) > WINDOW_CAPACITY THEN Tail(appended) ELSE appended

\* one chunk: its RMS value enters the window
ObserveChunk(rms) ==
  /\ Len(energies_arrived) < MaxEnergies
  /\ energy_window' = PushEnergy(energy_window, rms)
  /\ energies_arrived' = Append(energies_arrived, rms)
  /\ UNCHANGED <<session_vars, supervisor_vars, text_vars, proc_lock>>

EstimatorNext == \E rms \in EnergyLevels : ObserveChunk(rms)

Init == SessionInit /\ SupervisorInit /\ TextInit /\ EstimatorInit /\ LocksInit

SpecSession == Init /\ [][SessionNext]_vars

\* The session under the scheduling asyncio gives it: a task that was created
\* gets to run, an executor call and the load_engine task come to an end, a
\* callback waiting for the engine resumes once the engine task is done, and
\* asyncio.wait returns at the latest when its timeout has elapsed.
SessionFairness ==
  /\ WF_vars(PartialFirstStep)
  /\ WF_vars(\E o \in InferOutcomes : PartialReturn(o))
  /\ WF_vars(\E o \in {"ok", "failed"} : EngineTaskFinish(o))
  /\ WF_vars(FinalEngineReady)
  /\ WF_vars(\E o \in InferOutcomes, dur \in InferDurations : FinalReturn(o, dur))
  /\ WF_vars(Timeout)

SpecSessionLive == SpecSession /\ SessionFairness
\* the supervisor on its own, beside one session that stays as connected
SupervisorOnlyInit == Init /\ min_seconds = DEFAULT_MIN_SECONDS

SpecSupervisor == SupervisorOnlyInit /\ [][SupervisorNext]_vars

\* The supervisor some time after start-up: the default model's process was
\* started by an earlier transcribe_array call (whose request got no response,
\* so the statistics are still 0) and is registered and listening; dispatches
\* counts the calls made from here on.
SupervisorWarmInit ==
  /\ processes = [m \in Models |->
                    IF m = DEFAULT_MODEL
                    THEN [NoProcess EXCEPT !.port = BASE_PORT, !.pid = 1]
                    ELSE NoProcess]
  /\ os_procs = [p \in Pids |->
                   IF p = 1
                   THEN [model |-> DEFAULT_MODEL, port |-> BASE_PORT, state |-> "listening"]
                   ELSE [model |-> None, port |-> 0, state |-> "unspawned"]]
  /\ manager_lock = None
  /\ pc = [t \in Threads |-> "idle"]
  /\ call = [t \in Threads |-> NoCall]
  /\ last_stop = "none"
  /\ dispatches = 0

WarmInit ==
  /\ SessionInit /\ min_seconds = DEFAULT_MIN_SECONDS
  /\ SupervisorWarmInit
  /\ TextInit
  /\ EstimatorInit
  /\ LocksInit

SpecSupervisorWarm == WarmInit /\ [][SupervisorNext]_vars

\* the text filtering on its own, over every text and both settings of the flag
TextOnlyInit ==
  /\ SessionInit /\ min_seconds = DEFAULT_MIN_SECONDS
  /\ SupervisorInit
  /\ TextInputs
  /\ EstimatorInit
  /\ LocksInit

SpecText == TextOnlyInit /\ [][TextNext]_vars

\* the estimator on its own, beside one session that stays as connected
SpecEstimator == SupervisorOnlyInit /\ [][EstimatorNext]_vars

\* the supervisor's calls at the level of their locks, beside one session that
\* stays as connected; a thread inside a call goes on whenever it can (threads
\* are scheduled, and start(), stop() and the request end within their timeouts)
SpecLocks == SupervisorOnlyInit /\ [][LocksNext]_vars

LocksFairness == \A t \in Threads : WF_vars(LockStep(t))

SpecLocksLive == SpecLocks /\ LocksFairness

\* ----------------------------------------------------- end-to-end run
\* One session with the default min_seconds (2 s), whose engine has loaded,
\* fed 3 s of audio in chunks and then silence frames, the engine answering
\* every final transcription with a text that is accepted.
SCENARIO_SAMPLES == 3 * SAMPLE_RATE
ScenarioChunkSizes == {16000, 24000, 32000, 48000}
AcceptedResultText == <<" ", "o">>

RECURSIVE SamplesHandedOver(_)
SamplesHandedOver(segs) ==
  IF segs = <<>> THEN 0 ELSE BufferSize(Head(segs)) + SamplesHandedOver(Tail(segs))

\* the samples pushed so far: nothing is reset in this run
SamplesPushed == BufferSize(buffer) + SamplesHandedOver(segments_ready)

\* the session after SetupDone and EngineTaskFinish("ok")
ScenarioInit ==
  /\ loop_pc = "wait"
  /\ current_model = DEFAULT_MODEL
  /\ engine_local = None
  /\ engine_task = [model |-> DEFAULT_MODEL, state |-> "ok"]
  /\ min_seconds = DEFAULT_MIN_SECONDS
  /\ partial_interval_ms = DEFAULT_PARTIAL_INTERVAL
  /\ current_segment_id = 0
  /\ last_processed_size = 0
  /\ is_processing_partial = FALSE
  /\ partial_tasks = {}
  /\ buffer = <<>>
  /\ time_since_activity = 0
  /\ time_diff = PartialCap
  /\ final_history = <<>>
  /\ pending_segment = <<>>
  /\ last_sent = [type |-> "none", segment_id |-> 0, epoch |-> 0, size |-> 0,
                  history |-> <<>>]
  /\ segments_ready = <<>>
  /\ flush_calls = 0
  /\ pushed = <<>>
  /\ last_partial = "none"
  /\ next_chunk_id = 1
  /\ socket_counts = [m \in Models |-> IF m = DEFAULT_MODEL THEN 1 ELSE 0]
  /\ SupervisorInit
  /\ TextInit
  /\ EstimatorInit
  /\ LocksInit

ScenarioNext ==
  \/ \E size \in ScenarioChunkSizes :
       SamplesPushed + size <= SCENARIO_SAMPLES /\ ReceiveAudio(size)
  \/ SamplesPushed = SCENARIO_SAMPLES /\ ReceiveSilence
  \/ Timeout
  \/ PartialFirstStep
  \/ \E o \in InferOutcomes : PartialReturn(o)
  \/ \E dur \in InferDurations : FinalReturnText("text", AcceptedResultText, dur)

SpecScenario == ScenarioInit /\ [][ScenarioNext]_vars


\* ------------------------------------------------------------- claims
LastSegment == segments_ready[Len(segments_ready)]

\* C1: a partial inference whose captured segment id no longer equals the
\* session's current segment id when it returns is never applied: the step in
\* which it returns sends no frame (no partial, no error) and leaves
\* last_processed_size as it was.
C1_StalePartialNeverApplied ==
  [][\A t \in partial_tasks :
       (t.pc = "inferring" /\ t \notin partial_tasks'
          /\ t.my_segment_id # current_segment_id)
       => (last_sent' = last_sent /\ last_processed_size' = last_processed_size)]_vars

\* C1 witness: a partial that came back with text for a segment that had been
\* closed or reset meanwhile has just been dropped.
C1_Witness == last_partial = "discarded"

\* C2 (as claimed): at no time are two live processes spawned by the supervisor for
\* one model name.
C2_OneLiveProcessPerModel ==
  \A m \in Models : Cardinality({p \in Pids : os_procs[p].model = m /\ Alive(p)}) <= 1

\* C3: stop_server at its busy check reports a conflict when the counter is
\* nonzero and then changes neither the registry nor any process, and goes on
\* to terminate when the counter is zero; a stop that terminates returns success
\* with the process no longer running; a stop of an unknown or not-running model
\* returns not-found and changes nothing.
C3_StopContract ==
  [][\A t \in Threads :
       /\ (pc[t] = "stop_check" /\ pc'[t] # "stop_check")
            => IF processes[call[t].model].active_requests > 0
               THEN /\ last_stop' = "conflict"
                    /\ pc'[t] = "idle"
                    /\ UNCHANGED <<processes, os_procs>>
               ELSE pc'[t] = "stop_terminate"
       /\ (pc[t] = "stop_terminate" /\ pc'[t] = "idle")
            => LET pid == processes[call[t].model].pid
               IN /\ last_stop' = "stopped"
                  /\ processes'[call[t].model].pid = 0
                  /\ pid # 0 => os_procs'[pid].state \notin {"starting", "listening"}
       /\ \A m \in Models :
            (CallStop(t, m) /\ (~Registered(m) \/ ~IsRunning(m)))
            => (last_stop' = "not_found" /\ UNCHANGED <<processes, os_procs, pc>>)]_vars

\* C3 witness: a stop was refused with a conflict while a dispatch has its
\* request in flight.
C3_Witness ==
  /\ last_stop = "conflict"
  /\ \E t \in Threads : pc[t] = "post" /\ IsRunning(call[t].model)

\* C4 (as claimed): the process a dispatch obtained from _get_or_start is not
\* terminated by a stop while that dispatch is still in progress.
C4_NoStopDuringDispatch ==
  \A t \in Threads :
    (pc[t] \in {"increment", "post"} /\ call[t].pid # 0)
      => os_procs[call[t].pid].state # "terminated"

\* C5 (as claimed): the active-request counter of every process equals the number
\* of dispatches currently in progress on it (incremented, not yet finished).
C5_CounterEqualsInProgress ==
  \A m \in Models :
    processes[m].active_requests
      = Cardinality({t \in Threads : pc[t] = "post" /\ call[t].model = m})

C7_FlushEmptiesBuffer == flush_calls > 0 => buffer = <<>>

\* C8 (as claimed): the step in which the idle timeout flushes the segmenter
\* with a non-empty buffer delivers the buffered audio to the callback, empties
\* the buffer, advances the epoch and leaves the session running.
C8_IdleFlushKeepsSessionRunning ==
  [][(flush_calls' > flush_calls /\ buffer # <<>>)
     => (/\ segments_ready' = Append(segments_ready, buffer)
         /\ buffer' = <<>>
         /\ current_segment_id' = current_segment_id + 1
         /\ loop_pc' # "closed")]_vars

\* C9: once an operation has completed the buffer holds fewer than
\* max_seconds * sample_rate samples.
C9_BufferBelowMaximum == BufferSize(buffer) < MAX_SAMPLES

\* C9 witness: a push brought the buffer to the maximum or above and the whole
\* buffer went to the callback within that push.
C9_Witness ==
  /\ segments_ready # <<>>
  /\ BufferSize(LastSegment) >= MAX_SAMPLES
  /\ buffer = <<>>

\* C10: at most one process_partial task exists that is not done, so at most one
\* partial inference is outstanding and none is queued behind it.
C10_OnePartialOutstanding == Cardinality(partial_tasks) <= 1

\* C10 witness: a partial inference is running, the loop has since handled audio
\* for the same segment (the buffer has grown past what the partial copied) and
\* is back in its wait without having started or queued a second one.
C10_Witness ==
  /\ loop_pc = "wait"
  /\ \E t \in partial_tasks :
       /\ t.pc = "inferring"
       /\ t.my_segment_id = current_segment_id
       /\ BufferSize(buffer) > t.current_size

C12_ModelSwitchResets ==
  [][/\ \A m \in Models :
          (ReceiveSelectModel(m) /\ m # current_model)
          => /\ current_model' = m
             /\ engine_local' = None
             /\ buffer' = <<>>
             /\ current_segment_id' = current_segment_id + 1
             /\ last_processed_size' = 0
             /\ engine_task' = [model |-> m, state |-> "pending"]
             /\ segments_ready' = segments_ready
             /\ final_history' = final_history
             /\ last_sent' = last_sent
     /\ segments_ready' # segments_ready
          => LET seg == segments_ready'[Len(segments_ready')]
             IN \/ seg = buffer
                \/ /\ Len(seg) = Len(buffer) + 1
                   /\ SubSeq(seg, 1, Len(buffer)) = buffer]_vars

\* C12 witness: a model switch has just discarded buffered audio that was never
\* delivered, while a partial inference on that audio is still outstanding.
C12_Witness ==
  /\ current_model # DEFAULT_MODEL
  /\ engine_task = [model |-> current_model, state |-> "pending"]
  /\ engine_local = None
  /\ buffer = <<>>
  /\ next_chunk_id > 1
  /\ segments_ready = <<>>
  /\ current_segment_id = 1
  /\ \E t \in partial_tasks : t.pc = "inferring" /\ t.current_size > 0

\* "contains at least one alphabetic character" and "one of its alphabetic
\* characters is Latin", as the claim words them
HasLetter(t) == \E i \in 1..Len(t) : IsAlpha(t[i])
HasLatinLetter(t) == \E i \in 1..Len(t) : IsAlpha(t[i]) /\ IsLatinLike(t[i])

\* s is t without its leading and trailing whitespace
IsStripOf(s, t) ==
  \E i \in 1..(Len(t) + 1), j \in 0..Len(t) :
    /\ s = SubSeq(t, i, j)
    /\ \A k \in 1..Len(t) : (k < i \/ k > j) => IsSpace(t[k])
    /\ s # <<>> => (~IsSpace(s[1]) /\ ~IsSpace(s[Len(s)]))

\* C13 (as claimed): once a text has been filtered, with s the returned text
\* without its surrounding whitespace: with allow_non_latin true the filtered
\* text is s, unchanged; with allow_non_latin false it is empty (suppressed)
\* exactly when s has a letter and none of its letters is Latin, and s otherwise.
C13_SuppressionRule ==
  text_pc = "filtered" =>
    \E s \in Texts :
      /\ IsStripOf(s, result_text)
      /\ text = IF ~allow_non_latin /\ HasLetter(s) /\ ~HasLatinLetter(s) THEN <<>> ELSE s

\* C13 (amended): the rule holds for the returned text without its surrounding
\* whitespace, unless that is a denylisted phrase, which is suppressed whatever
\* the flag: the filtered text is empty for a denylisted phrase, empty when the
\* flag is false and the stripped text has a letter and no Latin letter, and
\* the stripped text itself in every other case.
C13_SuppressionRuleAfterStripAndDenylist ==
  text_pc = "filtered" =>
    \E s \in Texts :
      /\ IsStripOf(s, result_text)
      /\ text = IF s \in IGNORED_TEXTS THEN <<>>
                ELSE IF ~allow_non_latin /\ HasLetter(s) /\ ~HasLatinLetter(s) THEN <<>>
                ELSE s

\* C13 witness: a text of two or more letters, none of them Latin, has been
\* suppressed with allow_non_latin false.
C13_Witness ==
  /\ text_pc = "filtered"
  /\ ~allow_non_latin
  /\ Len(result_text) >= 2
  /\ \A i \in 1..Len(result_text) : IsAlpha(result_text[i]) /\ ~IsLatinLike(result_text[i])
  /\ text = <<>>

\* C14 (as claimed): a text frame that is not JSON, is JSON but not an object,
\* has an unknown type, or carries a set_params value that cannot be converted
\* leaves the session's state as it was and the loop running.
C14_MalformedFrameIgnored ==
  [][(\/ ReceiveMalformed
      \/ ReceiveUnknownType
      \/ \E f \in RaisingFrames : ReceiveRaising(f))
     => /\ loop_pc' # "closed"
        /\ UNCHANGED <<current_model, engine_local, engine_task, min_seconds,
                       partial_interval_ms, current_segment_id, last_processed_size,
                       buffer, final_history, last_sent, socket_counts>>]_vars

\* C15 (as claimed): a partial inference that raises is skipped with the busy
\* flag cleared, no frame sent and the loop where it was; a final inference
\* that raises sends an error frame, leaves the history alone and the loop goes
\* back to its wait; and the loop, once entered, ends in no step other than a
\* disconnect (or receive error).
C15_InferenceFailureKeepsLoop ==
  [][/\ PartialReturn("error")
          => (~is_processing_partial' /\ loop_pc' = loop_pc /\ last_sent' = last_sent)
     /\ (\E d \in InferDurations : FinalReturn("error", d))
          => (loop_pc' = "wait" /\ last_sent'.type = "error"
              /\ final_history' = final_history)
     /\ (loop_pc \notin {"setup", "closed"} /\ loop_pc' = "closed") => Disconnect]_vars

\* C16 (as claimed): no two registry entries whose processes are running have
\* the same port, and a dispatch with its request in flight is never on a port
\* on which another model's process is listening.
C16_PortsDistinctAcrossModels ==
  /\ \A m1, m2 \in Models :
       (m1 # m2 /\ IsRunning(m1) /\ IsRunning(m2))
         => processes[m1].port # processes[m2].port
  /\ \A t \in Threads :
       pc[t] = "post"
         => \A p \in Pids :
              (os_procs[p].state = "listening" /\ os_procs[p].port = call[t].port)
                => os_procs[p].model = call[t].model

\* C17 (as claimed): for every model the supervisor's socket count is the
\* number of open sessions whose current model it is (here one session: 1 for
\* its current model while it is open, 0 otherwise).
C17_SocketCountMatchesSessions ==
  \A m \in Models :
    socket_counts[m] = IF loop_pc # "closed" /\ current_model = m THEN 1 ELSE 0

\* C18 (as claimed): a dispatch to a model whose process is registered and
\* listening can go on from _get_or_start whenever whoever holds manager_lock
\* is busy with a different model (starting it, or failing to).
C18_OtherModelNotHeldUp ==
  \A t \in Threads :
    (/\ pc[t] = "get_or_start"
     /\ Registered(call[t].model)
     /\ os_procs[processes[call[t].model].pid].state = "listening"
     /\ manager_lock # None
     /\ call[manager_lock].model # call[t].model)
      => ENABLED GetOrStart(t)

\* C19 (as claimed): _get_or_start hands a process to transcribe_array only when
\* the process's port accepts a connection and the process has not been seen
\* exited; and a start that fails for a model not yet in the registry leaves
\* the registry as it was and releases manager_lock.
C19_StartOutcomes ==
  [][\A t \in Threads :
       /\ (pc[t] \in {"get_or_start", "start_wait"} /\ pc'[t] = "increment")
            => (Listening(call'[t].port) /\ ~SeenExited(call'[t].pid))
       /\ (pc[t] = "start_wait" /\ pc'[t] = "idle" /\ call[t].fresh)
            => (processes' = processes /\ manager_lock' = None)]_vars

\* the three statistics counters of a registry entry
StatsOf(p) == <<p.total_requests, p.total_partials, p.total_finals>>

\* C20: no update of a process's statistics is lost: every request that got a
\* response adds exactly one to total_requests and one to total_partials or
\* total_finals according to how it was dispatched, whatever the other thread
\* does meanwhile; no other step changes the statistics; and at every point
\* total_requests = total_partials + total_finals.
C20_NoLostStatsUpdate ==
  [][\A m \in Models :
       /\ processes[m].total_requests = processes[m].total_partials + processes[m].total_finals
       /\ processes'[m].total_requests = processes'[m].total_partials + processes'[m].total_finals
       /\ IF \E t \in Threads : /\ pc[t] = "post" /\ call[t].model = m
                                /\ Post(t, "ok") \/ Post(t, "http_error")
          THEN \E t \in Threads :
                 /\ pc[t] = "post" /\ pc'[t] = "idle" /\ call[t].model = m
                 /\ StatsOf(processes'[m]) =
                      <<processes[m].total_requests + 1,
                        processes[m].total_partials + (IF call[t].is_partial THEN 1 ELSE 0),
                        processes[m].total_finals + (IF call[t].is_partial THEN 0 ELSE 1)>>
          ELSE StatsOf(processes'[m]) = StatsOf(processes[m])]_vars

\* two requests to the same model, one partial and one final, both answered
C20_Witness ==
  \E m \in Models : StatsOf(processes[m]) = <<2, 1, 1>>

\* C21 (as claimed): the partial interval the session schedules with is always
\* within [100 ms, 2000 ms], whatever a set_params frame carried.
C21_PartialIntervalClamped ==
  partial_interval_ms >= PARTIAL_MIN_INTERVAL /\ partial_interval_ms <= 2000

\* C22: two partial inferences of a session never start less than the current
\* partial interval apart: a step that starts a partial inference is taken with
\* at least partial_interval_ms elapsed since the previous start (and restarts
\* that clock), and a process_partial that finds less than partial_interval_ms
\* elapsed ends without starting an inference.
C22_PartialsAtLeastIntervalApart ==
  [][/\ (~is_processing_partial /\ is_processing_partial')
          => (time_diff >= partial_interval_ms /\ time_diff' = 0)
     /\ \A t \in partial_tasks :
          (t.pc = "created" /\ t \notin partial_tasks' /\ time_diff < partial_interval_ms)
            => /\ partial_tasks' = partial_tasks \ {t}
               /\ UNCHANGED <<is_processing_partial, time_diff, last_processed_size, last_sent>>]_vars

\* a process_partial has just returned from the rate limit, a partial inference
\* having started less than partial_interval_ms before
C22_Witness ==
  /\ last_partial = "rate_limited"
  /\ time_diff < partial_interval_ms
  /\ BufferSize(buffer) * 2 >= SAMPLE_RATE
  /\ engine_local # None

\* the contiguous pieces of a text
Pieces(raw) == {SubSeq(raw, i, j) : i \in 1..(Len(raw) + 1), j \in 0..Len(raw)}

\* what the claim calls the normalised text of a final inference that returned
\* raw: empty when raw without its surrounding whitespace is empty, is a
\* denylisted phrase, or is suppressed as non-Latin; that stripped text otherwise
IsNormalisedOf(n, raw) ==
  \E s \in Pieces(raw) :
    /\ IsStripOf(s, raw)
    /\ n = IF \/ s \in IGNORED_TEXTS
              \/ (~allow_non_latin /\ HasLetter(s) /\ ~HasLatinLetter(s))
           THEN <<>> ELSE s

\* C23: history and final messages stay in step.  History is append-only; a
\* final inference whose normalised text is non-empty appends exactly that text
\* once and sends one final message whose history is the whole list ending with
\* it; one whose text is empty, denylisted or suppressed as non-Latin, or that
\* fails, appends nothing and sends no final message; no other step sends a
\* final message; and closing a segment sets last_processed_size to 0.
C23_HistoryAndFinalsInStep ==
  [][/\ \/ final_history' = final_history
        \/ /\ Len(final_history') = Len(final_history) + 1
           /\ SubSeq(final_history', 1, Len(final_history)) = final_history
     /\ \A o \in InferOutcomes, raw \in FinalResultTexts \cup {<<>>} :
          (/\ loop_pc = "final_infer" /\ loop_pc' = "wait"
           /\ raw # <<>> <=> o = "text"
           /\ \E d \in InferDurations : FinalReturnText(o, raw, d)) =>
            \E n \in Pieces(raw) :
              /\ IsNormalisedOf(n, raw)
              /\ IF o # "error" /\ n # <<>>
                 THEN /\ final_history' = Append(final_history, n)
                      /\ last_sent'.type = "final"
                      /\ last_sent'.history = final_history'
                 ELSE /\ final_history' = final_history
                      /\ (last_sent' = last_sent \/ last_sent'.type = "error")
     /\ (last_sent' # last_sent /\ last_sent'.type = "final")
          => (loop_pc = "final_infer" /\ final_history' # final_history)
     /\ segments_ready' # segments_ready => last_processed_size' = 0]_vars

\* two segments were closed: the text of one was suppressed or empty, the text
\* of the other was accepted, appended to the history and sent
C23_Witness ==
  /\ Len(segments_ready) = 2
  /\ Len(final_history) = 1
  /\ last_sent.type = "final"
  /\ last_sent.history = final_history
  /\ loop_pc = "wait"

\* C24: a silence frame arriving while the buffer holds less than min_seconds of
\* audio is a no-op: the callback is not invoked (no segment is handed over, the
\* loop does not enter on_segment_ready), and buffer, epoch, history and the
\* partial scratch state are unchanged.
C24_ShortSilenceNoOp ==
  [][(/\ BufferSize(buffer) * 1000 < min_seconds * SAMPLE_RATE
      /\ ReceiveSilence)
       => /\ UNCHANGED <<buffer, pushed, segments_ready, current_segment_id, final_history,
                         last_processed_size, pending_segment, last_sent, engine_local>>
          /\ loop_pc' = "wait"]_vars

\* the loop is waiting for a frame with audio buffered, less than min_seconds of it
C24_Witness ==
  /\ LoopAtWait
  /\ buffer # <<>>
  /\ BufferSize(buffer) * 1000 < min_seconds * SAMPLE_RATE
  /\ ENABLED ReceiveSilence

\* C25: the segment-ready callback is never invoked with zero-length audio,
\* whatever min_seconds is: every segment handed over holds samples; a silence
\* frame (or an idle timeout) finding the buffer empty hands nothing over and
\* changes neither buffer, epoch, scratch state nor history; and an audio frame
\* with an empty chunk changes none of them either.
C25_NoZeroLengthSegment ==
  [][/\ \A i \in 1..Len(segments_ready') : BufferSize(segments_ready'[i]) > 0
     /\ ((buffer = <<>> /\ (ReceiveSilence \/ Timeout)) \/ ReceiveAudio(0))
          => UNCHANGED <<buffer, pushed, segments_ready, current_segment_id,
                         last_processed_size, final_history, pending_segment>>]_vars

\* a frame has just been taken with the buffer empty and min_seconds 0, where
\* a silence frame passes the duration test of notify_silence
C25_Witness ==
  /\ LoopAtWait
  /\ min_seconds = 0
  /\ buffer = <<>>
  /\ time_since_activity = 0
  /\ ENABLED ReceiveSilence

C27_AudioAppendedInOrder ==
  [][/\ next_chunk_id' # next_chunk_id
          => \E size \in ChunkSizes \ {0} :
               LET nb == Append(buffer, [id |-> next_chunk_id, size |-> size])
               IN \/ buffer' = nb /\ segments_ready' = segments_ready
                  \/ buffer' = <<>> /\ segments_ready' = Append(segments_ready, nb)
     /\ (LoopAtWait /\ next_chunk_id <= MaxChunks)
          => ENABLED (\E size \in ChunkSizes \ {0} : ReceiveAudio(size))
     /\ \A i, j \in 1..Len(buffer') : i < j => buffer'[i].id < buffer'[j].id]_vars

\* two chunks sit in the buffer in arrival order, taken while the engine was
\* still loading
C27_Witness ==
  /\ Len(buffer) = 2
  /\ buffer[1].id < buffer[2].id
  /\ engine_local = None
  /\ engine_task.state = "pending"

\* C28 (as claimed): when the engine task of the current model has completed
\* successfully, the session not having used the engine yet, with at least
\* 0.5 s of audio in the buffer (one chunk of that length is enough) and no
\* partial inference started within the last interval, then, with no further audio frame needed, a partial inference on
\* that audio is eventually started, unless the session ends or the audio
\* leaves the buffer first (segment closed, model switched).
C28_BacklogPartialEventuallyStarts ==
  (/\ loop_pc \notin {"setup", "closed"}
   /\ engine_task.state = "ok"
   /\ engine_local = None
   /\ \E i \in 1..Len(buffer) : buffer[i].size * 2 >= SAMPLE_RATE
   /\ time_diff = PartialCap)
    ~> (\/ \E t \in partial_tasks : t.pc = "inferring" /\ t.my_segment_id = current_segment_id
        \/ loop_pc = "closed"
        \/ buffer = <<>>)

\* C29: a failed engine load is reported as an error frame and leaves the
\* session connected: the step in which load_engine fails sends an error frame
\* and ends nothing; a segment closed while no engine is available (the load
\* has failed, or fails while on_segment_ready waits for it) produces an error
\* frame, no final message and no history entry, and the loop goes back to its
\* wait, where it takes frames as before.
C29_EngineFailureReported ==
  [][/\ (engine_task.state = "pending" /\ engine_task'.state = "failed")
          => /\ last_sent'.type = "error"
             /\ loop_pc' = loop_pc
             /\ UNCHANGED <<final_history, buffer, current_segment_id, socket_counts>>
     /\ (/\ engine_local = None /\ engine_task.state = "failed"
         /\ \/ segments_ready' # segments_ready
            \/ (loop_pc = "final_engine" /\ loop_pc' # loop_pc))
          => /\ last_sent'.type = "error"
             /\ final_history' = final_history
             /\ loop_pc' = "wait"
             /\ pending_segment' = pending_segment \/ pending_segment' = <<>>
     /\ (engine_task.state = "failed" /\ LoopAtWait)
          => /\ ENABLED ReceiveUnknownType
             /\ current_segment_id < MaxEpoch => ENABLED ReceiveSilence]_vars

\* the load of the current model has failed and a segment closed afterwards
\* was answered with an error frame; the loop is back at its wait
C29_Witness ==
  /\ engine_task.state = "failed"
  /\ engine_local = None
  /\ segments_ready # <<>>
  /\ last_sent.type = "error"
  /\ last_sent.epoch = last_sent.segment_id + 1
  /\ final_history = <<>>
  /\ LoopAtWait

\* C30 (as claimed): after the load of the session's current model has failed,
\* a select_model frame naming that model starts a new load of it.
C30_FailedLoadRetryable ==
  [][(/\ engine_task.state = "failed"
      /\ engine_task.model = current_model
      /\ ReceiveSelectModel(current_model))
       => engine_task' = [model |-> current_model, state |-> "pending"]]_vars

\* C31: end to end with min_seconds 2 s, a loaded engine and accepted text:
\* the silence frame taken after the 3 s of audio closes one segment holding
\* exactly the chunks pushed; the final transcription of it sends the one
\* final message and makes the history one entry long; and once that frame is
\* handled there is exactly one segment, of 3 s, one history entry and an
\* empty buffer, whatever the chunking and the partial inferences in between.
C31_ThreeSecondsOneSegment ==
  [][/\ (SamplesPushed = SCENARIO_SAMPLES /\ buffer # <<>> /\ ReceiveSilence)
          => /\ segments_ready' = <<buffer>>
             /\ buffer' = <<>>
             /\ loop_pc' = "final_infer"
     /\ (loop_pc = "final_infer" /\ loop_pc' = "wait")
          => /\ Len(final_history') = 1
             /\ last_sent'.type = "final"
             /\ last_sent'.history = final_history'
             /\ last_sent'.size = SCENARIO_SAMPLES
     /\ (last_sent'.type = "final" /\ last_sent' # last_sent) => final_history = <<>>
     /\ (segments_ready' # <<>> /\ loop_pc' \in {"wait", "closed"})
          => /\ Len(segments_ready') = 1
             /\ BufferSize(segments_ready'[1]) = SCENARIO_SAMPLES
             /\ Len(final_history') = 1
             /\ buffer' = <<>>]_vars

\* the 3 s arrived in two chunks, the silence frame has been handled: one
\* segment, one final message, one history entry
C31_Witness ==
  /\ Len(segments_ready) = 1
  /\ Len(segments_ready[1]) = 2
  /\ BufferSize(segments_ready[1]) = SCENARIO_SAMPLES
  /\ Len(final_history) = 1
  /\ last_sent.type = "final"
  /\ loop_pc = "wait"

\* C32: the estimator's window never holds more than its capacity, and it
\* always is the most recent values in arrival order: the last
\* min(capacity, number of values so far) values computed, oldest first.
C32_WindowIsMostRecent ==
  LET n == Len(energies_arrived)
      k == IF n < WINDOW_CAPACITY THEN n ELSE WINDOW_CAPACITY
  IN  /\ Len(energy_window) <= WINDOW_CAPACITY
      /\ energy_window = SubSeq(energies_arrived, n - k + 1, n)

\* a value has been evicted from a full window, and the values differ
C32_Witness ==
  /\ Len(energies_arrived) > WINDOW_CAPACITY
  /\ Len(energy_window) = WINDOW_CAPACITY
  /\ energies_arrived[1] # energies_arrived[Len(energies_arrived)]
  /\ energy_window[1] # energy_window[WINDOW_CAPACITY]

\* C33: the segment id of a session never decreases; a step that empties a
\* buffer holding audio, and a step that switches the model, adds exactly one
\* to it; it changes in no other step, and the step that changes it leaves the
\* buffer empty and the recorded partial length 0; a partial attempt that
\* starts its inference captures the segment id and the buffer of that very
\* step, so an inference that carries the current segment id was started on
\* the current buffer.
IsPrefixOf(a, b) == Len(a) <= Len(b) /\ a = SubSeq(b, 1, Len(a))

C33_EpochStepsWithBufferClear ==
  [][/\ current_segment_id' >= current_segment_id
     /\ (buffer # <<>> /\ buffer' = <<>>) => current_segment_id' = current_segment_id + 1
     /\ current_model' # current_model => current_segment_id' = current_segment_id + 1
     /\ current_segment_id' # current_segment_id =>
          /\ current_segment_id' = current_segment_id + 1
          /\ buffer' = <<>>
          /\ last_processed_size' = 0
     /\ \A t \in partial_tasks' \ partial_tasks :
          t.pc = "inferring" =>
            t.my_segment_id = current_segment_id' /\ t.audio_copy = buffer'
     /\ \A t \in partial_tasks' :
          (t.pc = "inferring" /\ t.my_segment_id = current_segment_id') =>
            IsPrefixOf(t.audio_copy, buffer')]_vars

\* a segment was closed and the model was switched, with an inference of an
\* earlier segment still running
C33_Witness ==
  /\ current_segment_id = 2
  /\ segments_ready # <<>>
  /\ current_model # DEFAULT_MODEL
  /\ \E t \in partial_tasks : t.pc = "inferring" /\ t.my_segment_id < current_segment_id

\* C34: a partial attempt starts an inference only on a buffer that is longer
\* than the recorded length and holds at least 0.5 s of audio; the recorded
\* length changes only in a step that advances the segment id, which sets it to
\* 0, and in a step that applies a fresh partial with non-empty text, which
\* sets it to the length that partial was started on.
C34_PartialOnlyOnGrownBuffer ==
  [][/\ \A t \in partial_tasks' \ partial_tasks :
          t.pc = "inferring" =>
            /\ t.current_size = BufferSize(buffer)
            /\ t.current_size > last_processed_size
            /\ t.current_size * 2 >= SAMPLE_RATE
            /\ UNCHANGED last_processed_size
     /\ last_processed_size' # last_processed_size =>
          \/ /\ current_segment_id' = current_segment_id + 1
             /\ last_processed_size' = 0
          \/ /\ UNCHANGED current_segment_id
             /\ last_partial' = "applied"
             /\ last_sent'.type = "partial"
             /\ last_sent'.segment_id = current_segment_id
             /\ last_processed_size' = last_sent'.size
             /\ \E t \in partial_tasks \ partial_tasks' :
                  /\ t.pc = "inferring"
                  /\ t.my_segment_id = current_segment_id
                  /\ t.current_size = last_processed_size'
                  /\ t.current_size > last_processed_size]_vars

\* a second inference of one segment has started, on a buffer that grew past
\* the length the first applied partial recorded
C34_Witness ==
  /\ last_processed_size > 0
  /\ \E t \in partial_tasks :
       /\ t.pc = "inferring"
       /\ t.my_segment_id = current_segment_id
       /\ t.current_size > last_processed_size

\* C35 (as claimed): every spawned process that is alive is the process of a
\* registry entry, or is the one a _get_or_start call still in progress is
\* waiting for; once the call has failed, nothing it spawned is left alive
\* outside the registry.
C35_NoProcessOutsideRegistry ==
  \A p \in Pids :
    Alive(p) =>
      \/ \E m \in Models : Registered(m) /\ processes[m].pid = p
      \/ \E t \in Threads : pc[t] = "start_wait" /\ call[t].pid = p

\* C36: a partial frame is sent only by the step that applies a partial, and
\* that partial was computed from audio of the segment that is open when the
\* frame is sent: it carries the current segment id and its audio is a prefix
\* of the current buffer. A final frame is only ever about a segment that was
\* closed before, one with a smaller id than the current one. With the id
\* never decreasing, no partial frame of a segment follows the close of that
\* segment, nor its final frame.
C36_NoPartialAfterClose ==
  [][/\ last_partial' = "applied" =>
          /\ last_sent'.type = "partial"
          /\ last_sent'.segment_id = current_segment_id'
          /\ current_segment_id' >= current_segment_id
          /\ \E t \in partial_tasks \ partial_tasks' :
               /\ t.my_segment_id = last_sent'.segment_id
               /\ t.current_size = last_sent'.size
               /\ IsPrefixOf(t.audio_copy, buffer')
     /\ (last_sent'.type = "partial" /\ last_sent' # last_sent) => last_partial' = "applied"
     /\ (last_sent'.type = "final" /\ last_sent' # last_sent) =>
          /\ last_sent'.segment_id < current_segment_id'
          /\ \A t \in partial_tasks' :
               t.pc = "inferring" /\ t.my_segment_id <= last_sent'.segment_id
                 => t.my_segment_id # current_segment_id']_vars

\* a partial frame of the second segment has been sent after the final frame
\* of the first
C36_Witness ==
  /\ last_partial = "applied"
  /\ last_sent.segment_id = 1
  /\ final_history # <<>>

\* C37: the engine the session holds is never that of a model it has left: it
\* is the engine the load task of the current model returned, or none. A final
\* inference runs on the engine of the model that was current when its segment
\* was closed, which is still the current model when it returns; a partial
\* inference whose result can still be applied (its segment id is the current
\* one) runs on that engine too, at whatever moment the executor reads
\* engine_local; and a partial that is applied was computed by the engine of
\* the current model.
C37_InferenceByCurrentModel ==
  [][/\ engine_task'.state # "none" => engine_task'.model = current_model'
     /\ engine_local' # None =>
          engine_local' = current_model' /\ engine_task'.state = "ok"
     /\ loop_pc' = "final_infer" => engine_local' = current_model'
     /\ (loop_pc = "final_infer" /\ loop_pc' # "final_infer") =>
          /\ UNCHANGED <<current_model, engine_local>>
          /\ engine_local = current_model
     /\ \A t \in partial_tasks' :
          (t.pc = "inferring" /\ t.my_segment_id = current_segment_id') =>
             /\ t.engine = engine_local'
             /\ t.engine \in {current_model', None}
     /\ last_partial' = "applied" =>
          \E t \in partial_tasks \ partial_tasks' :
             /\ t.engine = current_model'
             /\ engine_local = t.engine]_vars

\* after a switch to another model, a segment is in its final inference on the
\* new model's engine while a partial started before the switch is still running
C37_Witness ==
  /\ current_model # DEFAULT_MODEL
  /\ loop_pc = "final_infer"
  /\ engine_local = current_model
  /\ \E t \in partial_tasks : t.pc = "inferring" /\ t.engine = DEFAULT_MODEL

\* two switches in a row, and a partial of the model switched back to is applied
C37_WitnessSwitchedBack ==
  /\ current_segment_id = 2
  /\ segments_ready = <<>>
  /\ current_model = DEFAULT_MODEL
  /\ last_partial = "applied"

\* C38 (as claimed): the session's min_seconds is within [0.5 s, MAX_SECONDS]
\* in every state, whatever the query parameter and the set_params frames
\* carried.
C38_MinSecondsClamped ==
  min_seconds >= MIN_SECONDS_FLOOR /\ min_seconds <= MAX_SECONDS * 1000

\* C39: the two kinds of lock are always taken in one order: a thread that
\* holds the lock of a process waits for no lock at all (in particular not for
\* manager_lock), and only the holder of manager_lock ever waits for the lock
\* of a process while holding a lock; every lock that is held is held by a
\* thread inside the section that took it; and every thread that waits for a
\* lock gets it, given that threads are scheduled and that startups, stops and
\* requests end.
HoldsProcLock(t) == \E m \in Models : proc_lock[m] = t

LocksTakenInOrder ==
  /\ \A t \in Threads :
       HoldsProcLock(t) =>
         /\ ~WaitsForManagerLock(t)
         /\ ~WaitsForProcLock(t)
         /\ proc_lock[LockModel(t)] = t
         /\ pc[t] \in {"start_locked", "count_locked", "latency_locked", "stats_locked",
                       "finally_locked", "stop_locked"}
  /\ manager_lock # None =>
       pc[manager_lock] \in {"start_lock", "start_locked", "start_wait", "socket_locked"}
  /\ \A t \in Threads :
       (WaitsForManagerLock(t) \/ pc[t] = "idle") => manager_lock # t

C39_LocksCannotDeadlock ==
  /\ []LocksTakenInOrder
  /\ \A t \in Threads : WaitsForManagerLock(t) ~> ~WaitsForManagerLock(t)
  /\ \A t \in Threads : WaitsForProcLock(t) ~> ~WaitsForProcLock(t)

\* the holder of manager_lock waits in start() for the lock of a process that
\* another thread holds for its request counter
C39_Witness ==
  \E t1, t2 \in Threads :
    /\ t1 # t2
    /\ manager_lock = t2
    /\ pc[t2] = "start_lock"
    /\ proc_lock[LockModel(t2)] = t1
    /\ pc[t1] \in {"count_locked", "finally_locked"}

\* C40 (as claimed): a socket-count update of a session's control loop never
\* waits for manager_lock while its holder is inside a process startup.
C40_SocketCountNotHeldUpByStartup ==
  \A t \in Threads :
    pc[t] = "socket_lock" =>
      ~(manager_lock # None /\ manager_lock # t
          /\ pc[manager_lock] \in {"start_lock", "start_locked", "start_wait"})

====
